---- MODULE Spec2Model ----
(***************************************************************************)
(* A model of fit-rs (src/src/main.rs): a GraphQL server whose `exercise`  *)
(* field resolves through one DataLoader<ExerciseLoader> over a Postgres   *)
(* table, and whose `exercises` field returns a fixed list.                *)
(*                                                                         *)
(* What main.rs contains is modelled from main.rs: the Exercise row, the   *)
(* table bootstrap and seed of run(), ExerciseLoader::load, the two        *)
(* resolvers, the single DataLoader built in run(), the query of the test. *)
(* The DataLoader itself (the collection window, the dispatch, the         *)
(* fan-out) is a dependency whose code is not in main.rs; it is modelled   *)
(* from sections 4.1 and 5 of the specification.  main.rs builds the       *)
(* loader with DataLoader::new and calls load_one on it directly: it       *)
(* creates no cache object and no per-request object, so the model has     *)
(* none.                                                                   *)
(***************************************************************************)
EXTENDS Integers, Sequences, FiniteSets, TLC

\* ---------------------------------------------------------------- bounds
MaxKey == 4          \* keys are 1..MaxKey
MaxFields == 2       \* `exercise` fields of an arbitrary query
MaxSlice == 3        \* length of a key slice handed to load directly

Keys == 1..MaxKey
\* the requests of one run: one request and a second that may overlap it
Requests == {1, 2}

\* ------------------------------------------------------------ data model
\* struct Exercise { id: i32, name: String }
Exercise == [id : Keys, name : {"Squat", "Deadlift", "Row", "Press", "Hi"}]

NoRow == [id |-> 0, name |-> ""]

\* VALUES (1, 'Squat'), (2, 'Deadlift'), (3, 'Row')
SeedRows ==
    { [id |-> 1, name |-> "Squat"],
      [id |-> 2, name |-> "Deadlift"],
      [id |-> 3, name |-> "Row"] }

\* id INTEGER PRIMARY KEY: no two rows of a table share an id
PrimaryKey(tbl) == \A a, b \in tbl : a.id = b.id => a = b

\* CREATE TABLE IF NOT EXISTS: the table may exist already, with rows of an
\* earlier run or of another writer.
ExistingTables ==
    { {}, { [id |-> 1, name |-> "Press"], [id |-> MaxKey, name |-> "Press"] } }

\* INSERT ... ON CONFLICT (id) DO NOTHING
InsertOnConflictDoNothing(tbl, rows) ==
    tbl \cup { r \in rows : \A t \in tbl : t.id # r.id }

\* sqlx errors a query can end with
Faults == {"Io", "PoolTimedOut"}

RECURSIVE SeqToSet(_)
SeqToSet(s) == IF s = <<>> THEN {} ELSE {Head(s)} \cup SeqToSet(Tail(s))

RECURSIVE Orders(_)
\* every order in which a set of keys can be laid out in a slice
Orders(S) ==
    IF S = {} THEN { <<>> }
    ELSE UNION { { <<x>> \o p : p \in Orders(S \ {x}) } : x \in S }

\* ------------------------------------------------- ExerciseLoader::load
Ok(m) == [ok |-> TRUE, map |-> m, err |-> "none"]
Err(e) == [ok |-> FALSE, map |-> <<>>, err |-> e]

\* SELECT id, name FROM exercises WHERE id IN (SELECT * FROM UNNEST($1))
SelectByIds(keys, tbl) == { r \in tbl : r.id \in SeqToSet(keys) }

\* .map_ok(|exercise| (exercise.id, exercise)).try_collect() into a HashMap
CollectById(rows) ==
    [k \in { r.id : r \in rows } |-> CHOOSE r \in rows : r.id = k]

\* the rows of a result set laid out by ascending id
RowsInIdOrder(rows) ==
    CHOOSE s \in Orders(rows) : \A i, j \in 1..Len(s) : i < j => s[i].id < s[j].id

\* load as it would be if it paired the i-th row with the i-th key
loadZipsKeysWithRows(keys, tbl, fault) ==
    IF fault # "none" THEN Err(fault)
    ELSE LET rs == RowsInIdOrder(SelectByIds(keys, tbl))
         IN  Ok([k \in { keys[i] : i \in 1..Len(rs) } |->
                   rs[CHOOSE i \in 1..Len(rs) : keys[i] = k]])

\* load as it would be without the WHERE clause
loadCollectsAllRows(keys, tbl, fault) ==
    IF fault # "none" THEN Err(fault) ELSE Ok(CollectById(tbl))

\* load as it would be if a failed query gave an empty map
loadSwallowsError(keys, tbl, fault) ==
    Ok(IF fault # "none" THEN CollectById({}) ELSE CollectById(SelectByIds(keys, tbl)))

\* async fn load(&self, keys: &[i32]) -> Result<HashMap<i32, Exercise>, FieldError>
load(keys, tbl, fault) ==
    IF fault # "none" THEN Err(fault)
    ELSE Ok(CollectById(SelectByIds(keys, tbl)))

\* ------------------------------------------------------------ DataLoader
\* load_one(key): the caller's share of the batch result, values.remove(&key)
loadOneResult(res, key) ==
    IF ~res.ok THEN [tag |-> "Err", row |-> NoRow, err |-> res.err]
    ELSE IF key \in DOMAIN res.map
         THEN [tag |-> "Some", row |-> res.map[key], err |-> "none"]
         ELSE [tag |-> "None", row |-> NoRow, err |-> "none"]

\* ------------------------------------------------------------- resolvers
Unissued == [tag |-> "unissued", row |-> NoRow, err |-> "none"]
Waiting == [tag |-> "waiting", row |-> NoRow, err |-> "none"]

\* the resolver as it would be if a missing row were reported as an error
exerciseReturnNotFoundIsError(lo) ==
    CASE lo.tag = "Err" -> [tag |-> "error", row |-> NoRow, err |-> lo.err]
      [] lo.tag = "Some" -> [tag |-> "value", row |-> lo.row, err |-> "none"]
      [] lo.tag = "None" -> [tag |-> "error", row |-> NoRow, err |-> "NotFound"]

\* QueryRoot::exercise, from the `?` on: Err(e) leaves as the field's error,
\* Ok(Some(row)) and Ok(None) leave as they are (Result<Option<Exercise>>)
exerciseReturn(lo) ==
    CASE lo.tag = "Err" -> [tag |-> "error", row |-> NoRow, err |-> lo.err]
      [] lo.tag = "Some" -> [tag |-> "value", row |-> lo.row, err |-> "none"]
      [] lo.tag = "None" -> [tag |-> "null", row |-> NoRow, err |-> "none"]

\* QueryRoot::exercises: vec![Exercise { id: 1, name: "Hi" }]
exercisesReturn == << [id |-> 1, name |-> "Hi"] >>

\* the query of tests::sample: exercise(id: 1) ... exercise(id: 4)
SampleQuery == << 1, 2, 3, 4 >>

RECURSIVE SeqsUpTo(_, _)
SeqsUpTo(S, n) ==
    IF n = 0 THEN { <<>> }
    ELSE LET shorter == SeqsUpTo(S, n - 1)
         IN  shorter \cup { Append(q, k) : q \in shorter, k \in S }

\* the `exercise` fields a query can hold, by their id arguments: the test's
\* query, and every short query over a seeded key and an unseeded one
Queries == SeqsUpTo({1, MaxKey}, MaxFields) \cup { SampleQuery }

FieldIds ==
    1..(IF Len(SampleQuery) > MaxFields THEN Len(SampleQuery) ELSE MaxFields)

\* ----------------------------------------------------------------- state
VARIABLES
    table,      \* the rows of the exercises table
    batchKeys,  \* the DataLoader's current batch: its distinct keys ...
    pending,    \* ... and its pending requests <<request, field>>
    opener,     \* the request whose call opened the collection window, or 0
    req,        \* per request: its state, query, field results, listing
    log,        \* the calls of ExerciseLoader::load so far
    probe       \* a direct call of ExerciseLoader::load and its result

vars == << table, batchKeys, pending, opener, req, log, probe >>

NoRequest == [state |-> "none", query |-> <<>>, list |-> "no",
              listed |-> <<>>, out |-> <<>>]
NoProbe == [keys |-> <<>>, tbl |-> {}, fault |-> "none", done |-> FALSE,
            res |-> Err("none")]

\* run(): the table is created if missing and seeded, then ONE DataLoader is
\* built and stored in the schema, and the server starts with no request.
run(existing) ==
    /\ table = InsertOnConflictDoNothing(existing, SeedRows)
    /\ batchKeys = {}
    /\ pending = {}
    /\ opener = 0
    /\ req = [r \in Requests |-> NoRequest]
    /\ log = <<>>
    /\ probe = NoProbe

Init == \E existing \in ExistingTables : run(existing)

\* POST /graphql: a request arrives with its query; requests are numbered
\* in the order they arrive
post(r, q, l) ==
    /\ req[r].state = "none"
    /\ \A earlier \in 1..(r - 1) : req[earlier].state # "none"
    /\ req' = [req EXCEPT ![r] =
                 [state |-> "open", query |-> q,
                  list |-> IF l THEN "wanted" ELSE "no",
                  listed |-> <<>>,
                  out |-> [f \in 1..Len(q) |-> Unissued]]]
    /\ UNCHANGED << table, batchKeys, pending, opener, log, probe >>

\* the resolver as it would be if it awaited without calling load_one
exerciseForgetsToLoad(r, f) ==
    /\ req[r].state = "open"
    /\ f \in 1..Len(req[r].query)
    /\ req[r].out[f].tag = "unissued"
    /\ req' = [req EXCEPT ![r].out[f] = Waiting]
    /\ UNCHANGED << table, batchKeys, pending, opener, log, probe >>

\* QueryRoot::exercise up to the await: the field calls load_one(id) on the
\* DataLoader of the schema, which adds the key and the caller to its batch.
exercise(r, f) ==
    /\ req[r].state = "open"
    /\ f \in 1..Len(req[r].query)
    /\ req[r].out[f].tag = "unissued"
    /\ batchKeys' = batchKeys \cup { req[r].query[f] }
    /\ pending' = pending \cup { << r, f >> }
    /\ opener' = IF pending = {} THEN r ELSE opener
    /\ req' = [req EXCEPT ![r].out[f] = Waiting]
    /\ UNCHANGED << table, log, probe >>

AllIssued(r) == \A f \in 1..Len(req[r].query) : req[r].out[f].tag # "unissued"

\* The window closes once the resolution that opened it has made all its
\* calls; the loader then calls ExerciseLoader::load once with the batch's
\* distinct keys, in some order, and every pending request gets its share.
Dispatch ==
    /\ pending # {}
    /\ AllIssued(opener)
    /\ \E order \in Orders(batchKeys), fault \in Faults \cup {"none"} :
         LET res == load(order, table, fault)
         IN  /\ req' = [r \in Requests |->
                          [req[r] EXCEPT !.out =
                             [f \in 1..Len(req[r].query) |->
                                IF << r, f >> \in pending
                                THEN exerciseReturn(loadOneResult(res, req[r].query[f]))
                                ELSE req[r].out[f]]]]
             /\ log' = Append(log, [keys |-> batchKeys, served |-> pending,
                                     fault |-> fault, res |-> res])
    /\ batchKeys' = {}
    /\ pending' = {}
    /\ opener' = 0
    /\ UNCHANGED << table, probe >>

\* QueryRoot::exercises
exercises(r) ==
    /\ req[r].state = "open"
    /\ req[r].list = "wanted"
    /\ req' = [req EXCEPT ![r].list = "done", ![r].listed = exercisesReturn]
    /\ UNCHANGED << table, batchKeys, pending, opener, log, probe >>

Resolved(r, f) == req[r].out[f].tag \in {"value", "null", "error"}

\* the response is sent once every field of the query has resolved
respond(r) ==
    /\ req[r].state = "open"
    /\ req[r].list # "wanted"
    /\ \A f \in 1..Len(req[r].query) : Resolved(r, f)
    /\ req' = [req EXCEPT ![r].state = "done"]
    /\ UNCHANGED << table, batchKeys, pending, opener, log, probe >>

Next ==
    \/ \E r \in Requests, q \in Queries, l \in BOOLEAN :
         (l => Len(q) <= 1) /\ post(r, q, l)
    \/ \E r \in Requests, f \in FieldIds : exercise(r, f)
    \/ Dispatch
    \/ \E r \in Requests : exercises(r)
    \/ \E r \in Requests : respond(r)

Spec == Init /\ [][Next]_vars

\* The resolution of the keyed fields alone, from a freshly created table:
\* queries without the `exercises` field, up to the last field's resolution.
NextKeyed ==
    \/ \E r \in Requests, q \in Queries : post(r, q, FALSE)
    \/ \E r \in Requests, f \in FieldIds : exercise(r, f)
    \/ Dispatch

\* The runtime polls every field of a query it is resolving, and the loader's
\* delay elapses: a resolver that can call load_one does, and a batch whose
\* window can close is dispatched.
FairSpec ==
    /\ run({})
    /\ [][NextKeyed]_vars
    /\ WF_vars(Dispatch)
    /\ \A r \in Requests, f \in FieldIds : WF_vars(exercise(r, f))

\* --------------------------------------- ExerciseLoader::load on its own
\* the tables a slice can be looked up in: any rows with distinct ids
Tables ==
    { t \in SUBSET (SeedRows \cup { [id |-> 1, name |-> "Press"],
                                    [id |-> MaxKey, name |-> "Press"] }) :
        t \subseteq Exercise /\ PrimaryKey(t) }

InitLoad ==
    /\ \E keys \in SeqsUpTo(Keys, MaxSlice), tbl \in Tables,
          fault \in Faults \cup {"none"} :
         /\ probe = [NoProbe EXCEPT !.keys = keys, !.tbl = tbl, !.fault = fault]
         /\ table = tbl
    /\ batchKeys = {}
    /\ pending = {}
    /\ opener = 0
    /\ req = [r \in Requests |-> NoRequest]
    /\ log = <<>>

callLoad ==
    /\ ~probe.done
    /\ probe' = [probe EXCEPT !.done = TRUE,
                               !.res = load(probe.keys, probe.tbl, probe.fault)]
    /\ UNCHANGED << table, batchKeys, pending, opener, req, log >>

NextLoad == callLoad

SpecLoad == InitLoad /\ [][NextLoad]_vars

\* ---------------------------------------------------------------- claims
Fields(r) == 1..Len(req[r].query)
KeyOf(r, f) == req[r].query[f]
Ids(tbl) == { row.id : row \in tbl }

\* the calls of load that served field f of request r
ServedBy(r, f) == { i \in 1..Len(log) : << r, f >> \in log[i].served }
\* the calls of load that served some field of request r
DispatchesOf(r) == UNION { ServedBy(r, f) : f \in Fields(r) }
\* the calls of load that served only fields of request r
Alone(r) == \A i \in DispatchesOf(r) : \A p \in log[i].served : p[1] = r
Answered(r) == req[r].state = "done" /\ Len(req[r].query) > 0

\* C1: the load_one calls of one request cause exactly one call of
\* ExerciseLoader::load, and its key set is the set of distinct keys that
\* request asked for (nothing is cached).
C1_OneFetchWithOwnKeys ==
    \A r \in Requests :
        Answered(r) =>
            /\ Cardinality(DispatchesOf(r)) = 1
            /\ \A i \in DispatchesOf(r) : log[i].keys = SeqToSet(req[r].query)

\* C2: a request that asks for 1, 2, 3, 4 on its own while the store holds
\* the seeded rows and answers gets Squat, Deadlift, Row and null from one
\* dispatch with key set {1,2,3,4}; and whatever the order of the keys in a
\* fetch, a field that gets a row gets the store's row for its own key and a
\* field that gets null has no row in the store.
C2_SampleAndPerKeyMapping ==
    /\ \A r \in Requests :
         ( /\ req[r].state = "done"
           /\ req[r].query = SampleQuery
           /\ table = SeedRows
           /\ Alone(r)
           /\ \A i \in DispatchesOf(r) : log[i].fault = "none" )
         =>
         /\ [f \in Fields(r) |-> req[r].out[f].tag]
              = << "value", "value", "value", "null" >>
         /\ [f \in 1..3 |-> req[r].out[f].row.name] = << "Squat", "Deadlift", "Row" >>
         /\ [f \in 1..3 |-> req[r].out[f].row.id] = << 1, 2, 3 >>
         /\ Cardinality(DispatchesOf(r)) = 1
         /\ \A i \in DispatchesOf(r) : log[i].keys = {1, 2, 3, 4}
    /\ \A r \in Requests : \A f \in Fields(r) :
         /\ req[r].out[f].tag = "value" =>
              req[r].out[f].row.id = KeyOf(r, f) /\ req[r].out[f].row \in table
         /\ req[r].out[f].tag = "null" => KeyOf(r, f) \notin Ids(table)

C2_Witness ==
    \E r \in Requests :
        /\ req[r].state = "done"
        /\ req[r].query = SampleQuery
        /\ table = SeedRows
        /\ Alone(r)
        /\ \A i \in DispatchesOf(r) : log[i].fault = "none"
        /\ \E other \in Requests \ {r} : req[other].state = "done"

\* C3 as stated: a field whose key is not in the store resolves to null,
\* never to an error, through exactly one dispatch.
C3_AbsentNeverAnError ==
    \A r \in Requests : \A f \in Fields(r) :
        (Resolved(r, f) /\ KeyOf(r, f) \notin Ids(table)) =>
            /\ req[r].out[f].tag = "null"
            /\ Cardinality(ServedBy(r, f)) = 1

\* C3 as amended: a field whose key is not in the store is served by exactly
\* one dispatch; it resolves to null if that fetch succeeded and to the
\* fetch's error if it failed, so null is never the outcome of a failure.
C3_AbsentUnlessFetchFails ==
    \A r \in Requests : \A f \in Fields(r) :
        (Resolved(r, f) /\ KeyOf(r, f) \notin Ids(table)) =>
            /\ Cardinality(ServedBy(r, f)) = 1
            /\ \A i \in ServedBy(r, f) :
                 /\ log[i].fault = "none" => req[r].out[f].tag = "null"
                 /\ log[i].fault # "none" =>
                      req[r].out[f].tag = "error" /\ req[r].out[f].err = log[i].fault

C3_Witness ==
    \E r \in Requests : \E f \in Fields(r) :
        /\ KeyOf(r, f) \notin Ids(table)
        /\ req[r].out[f].tag = "null"
        /\ \E g \in Fields(r) : req[r].out[g].tag = "value"

\* C4: when a fetch fails, every request of its batch resolves to that
\* fetch's error, none to a row or to null, and no request is fetched for a
\* second time.
C4_FailureReachesWholeBatch ==
    \A i \in 1..Len(log) :
        log[i].fault # "none" =>
            \A p \in log[i].served :
                /\ req[p[1]].out[p[2]].tag = "error"
                /\ req[p[1]].out[p[2]].err = log[i].fault
                /\ ServedBy(p[1], p[2]) = {i}

C4_Witness ==
    \E i \in 1..Len(log) :
        /\ log[i].fault # "none"
        /\ Cardinality(log[i].served) >= 2
        /\ \E j \in 1..Len(log) : log[j].fault = "none" /\ log[j].served # {}

\* C5: the fields of one request that ask for the same key all get the same
\* outcome, and exactly one dispatch holding that key serves the request.
C5_SameKeySameOutcomeOneFetch ==
    \A r \in Requests : \A f, g \in Fields(r) :
        (Resolved(r, f) /\ Resolved(r, g) /\ KeyOf(r, f) = KeyOf(r, g)) =>
            /\ req[r].out[f] = req[r].out[g]
            /\ ServedBy(r, f) = ServedBy(r, g)
            /\ Cardinality(ServedBy(r, f)) = 1

\* C6: the loader's state belongs to one request: a batch never holds the
\* calls of two requests, so every request has a fetch of its own.
C6_LoaderStatePerRequest ==
    /\ \A p, q \in pending : p[1] = q[1]
    /\ \A i \in 1..Len(log) : \A p, q \in log[i].served : p[1] = q[1]

\* C7: the listing returns the rows the store holds, and leaves the loader's
\* batch as it is.
C7_ListingReadsStoreOnly ==
    [][ \A r \in Requests :
          (req[r].list = "wanted" /\ req'[r].list = "done") =>
              /\ SeqToSet(req'[r].listed) = table
              /\ UNCHANGED << batchKeys, pending, opener, log >> ]_vars

\* C8: once a field of a request has got a StoreError for key k, a load of k
\* made later in that request gets the same error, and no further fetch is
\* dispatched for it.
C8_ErrorIsKeptForTheRequest ==
    [][ \A r \in Requests : \A f, g \in Fields(r) :
          ( /\ req[r].out[f].tag = "error"
            /\ req[r].out[g].tag = "unissued"
            /\ KeyOf(r, f) = KeyOf(r, g)
            /\ req'[r].out[g].tag # "unissued" )
          => (req'[r].out[g] = req[r].out[f] /\ pending' = pending) ]_vars

NoCallIsLost ==
    \A r \in Requests : \A f \in Fields(r) :
        /\ req[r].out[f].tag = "waiting" => << r, f >> \in pending
        /\ \A i \in 1..Len(log) : << r, f >> \in log[i].served => Resolved(r, f)

IsWaiting(r, f) == f \in Fields(r) /\ req[r].out[f].tag = "waiting"
IsResolved(r, f) == f \in Fields(r) /\ Resolved(r, f)

\* C9: a field that has called load_one is in the batch until the batch is
\* dispatched, is resolved (row, null or error) by that dispatch, and does
\* get resolved, in whatever order the fields of the requests made their
\* calls.
C9_EveryCallerIsResolved ==
    /\ []NoCallIsLost
    /\ \A r \in Requests : \A f \in FieldIds : IsWaiting(r, f) ~> IsResolved(r, f)

\* field 2 of a request was enqueued and resolved before its field 1 called
C9_Witness ==
    \E r \in Requests :
        /\ Len(req[r].query) >= 2
        /\ req[r].out[1].tag = "unissued"
        /\ Resolved(r, 2)

\* C10: a successful load maps exactly the requested keys that have a row in
\* the table, a key given twice once, and maps each key to the row whose id
\* is that key.
C10_LoadMapsRequestedIdsToTheirRows ==
    (probe.done /\ probe.res.ok) =>
        /\ DOMAIN probe.res.map = SeqToSet(probe.keys) \cap Ids(probe.tbl)
        /\ \A k \in DOMAIN probe.res.map :
             probe.res.map[k].id = k /\ probe.res.map[k] \in probe.tbl

C10_Witness ==
    /\ probe.done
    /\ probe.res.ok
    /\ \E i, j \in 1..Len(probe.keys) : i # j /\ probe.keys[i] = probe.keys[j]
    /\ SeqToSet(probe.keys) \cap Ids(probe.tbl) # {}
    /\ SeqToSet(probe.keys) \ Ids(probe.tbl) # {}
    /\ Ids(probe.tbl) \ SeqToSet(probe.keys) # {}

====
